---- MODULE Spec2Model ----
(***************************************************************************)
(* Model of backend/main.py: the two request handlers upload_document and  *)
(* chat_endpoint over the process-wide vector_store, the uploads directory *)
(* and the language model.  Every request is a record of reqs; its pc is   *)
(* the handler's position between two accesses to what the requests share  *)
(* (the uploads directory, the vector store) or to the language model.     *)
(* Requests may interleave at these accesses, which covers several workers *)
(* sharing the same directories as well as a single event loop running one *)
(* handler at a time.  An exception that no try block of the handler       *)
(* catches ends the request with the framework's generic server error      *)
(* (form "exception").                                                     *)
(***************************************************************************)
EXTENDS Integers, Sequences, FiniteSets

MaxReqs == 2
MaxChunks == 1
MaxPersisted == 3

VARIABLES reqs, index, disk

vars == <<reqs, index, disk>>

\* ------------------------------------------------------------ inputs

Pdf == <<"a", ".", "p", "d", "f">>
Docx == <<"b", ".", "d", "o", "c", "x">>
Txt == <<"c", ".", "t", "x", "t">>

Filenames == {Pdf, Docx, Txt}
Contents == {1, 2}
Questions == {1, 2}

\* A file a failed copy left behind: opened "wb" (truncated), not fully written.
Truncated == -1
Absent == 0

\* ------------------------------------------------------------ helpers

EndsWith(s, suffix) ==
  /\ Len(s) >= Len(suffix)
  /\ SubSeq(s, Len(s) - Len(suffix) + 1, Len(s)) = suffix

\* Looks for an extension of any kind instead of the suffix.
IsPdfAnyExtension(filename) == \E k \in 1..Len(filename) : filename[k] = "."

IsPdf(filename) == EndsWith(filename, <<".", "p", "d", "f">>)

IsDocx(filename) == EndsWith(filename, <<".", "d", "o", "c", "x">>)

Supported(filename) == IsPdf(filename) \/ IsDocx(filename)

FilePath(filename) == <<"uploaded_files", filename>>

EmbeddingFunction == "sentence-transformers/all-MiniLM-L6-v2"

\* The embedder vector_store was constructed with.
VectorStoreEmbedding == EmbeddingFunction

OtherEmbedding == "another-embedding-model"

\* The embedder add_documents embeds a batch with: the store's own.
AddEmbedding == VectorStoreEmbedding

\* The embedder similarity_search embeds the question with: the store's own.
QueryEmbedding == VectorStoreEmbedding

KOffByOne == 3 - 1

K == 3

Embed(text) == text

Abs(x) == IF x < 0 THEN -x ELSE x

Dist(question, entry) == Abs(Embed(question * 10) - entry.embedding.vec)

NoResp == [form |-> "none", error |-> "", chunks |-> 0, response |-> "", source_docs |-> <<>>]

Success(n) == [NoResp EXCEPT !.form = "success", !.chunks = n]

SaveError == [NoResp EXCEPT !.form = "error", !.error = "Failed to save file"]

UnsupportedError == [NoResp EXCEPT !.form = "error", !.error = "Unsupported file format"]

\* An exception leaving the handler: the framework answers with its server error.
Unhandled == [NoResp EXCEPT !.form = "exception"]

Answer(results) ==
  [NoResp EXCEPT !.form = "answer", !.response = "text",
                 !.source_docs = [p \in 1..Len(results) |-> results[p].metadata]]

NewReq(kind, filename, content, question) ==
  [kind |-> kind, pc |-> IF kind = "upload" THEN "save" ELSE "search",
   filename |-> filename, content |-> content, question |-> question,
   saved |-> "none", documents |-> Absent, split |-> FALSE, chunks |-> <<>>,
   failedAt |-> "none", searched |-> FALSE, queryEmb |-> "", results |-> <<>>,
   seen |-> <<>>, after |-> {}, llmCalls |-> 0, resp |-> NoResp]

\* The chunks the chunker cut out of the loaded documents.
Chunk(filename, documents, j) ==
  [page_content |-> documents * 10 + j, metadata |-> FilePath(filename)]

Entry(i, j, chunk) ==
  [id |-> <<i, j>>, page_content |-> chunk.page_content, metadata |-> chunk.metadata,
   embedding |-> [model |-> AddEmbedding, vec |-> Embed(chunk.page_content)]]

\* Returns before the batch is written.
AddDocumentsDeferred(ix, i, chunks) == ix

\* Replaces the entries of the same source file instead of appending to them.
AddDocumentsUpsert(ix, i, chunks) ==
  SelectSeq(ix, LAMBDA e : \A j \in 1..Len(chunks) : e.metadata # chunks[j].metadata)
    \o [j \in 1..Len(chunks) |-> Entry(i, j, chunks[j])]

AddDocuments(ix, i, chunks) ==
  ix \o [j \in 1..Len(chunks) |-> Entry(i, j, chunks[j])]

Closer(ix, question, p, r) ==
  \/ Dist(question, ix[p]) < Dist(question, ix[r])
  \/ Dist(question, ix[p]) = Dist(question, ix[r]) /\ p <= r

RECURSIVE TopK(_, _, _, _)
TopK(ix, question, S, k) ==
  IF k = 0 \/ S = {} THEN <<>>
  ELSE LET best == CHOOSE p \in S : \A r \in S : Closer(ix, question, p, r)
       IN <<ix[best]>> \o TopK(ix, question, S \ {best}, k - 1)

SimilaritySearch(ix, question, k) == TopK(ix, question, DOMAIN ix, k)

Live == DOMAIN reqs

At(i, kind, pc) == i \in Live /\ reqs[i].kind = kind /\ reqs[i].pc = pc

Responded == {u \in Live : reqs[u].kind = "upload" /\ reqs[u].resp.form = "success"}

\* ------------------------------------------------------------ state

\* What an earlier run of the process left in persist_directory.
Persisted ==
  [j \in 1..MaxPersisted |-> Entry(0, j, Chunk(Pdf, 1, j))]

Init ==
  /\ reqs = <<>>
  /\ index \in {<<>>, Persisted}
  /\ disk = [f \in Filenames |-> Absent]

\* ------------------------------------------------------------ upload_document

\* Keeps the file an earlier upload stored under the name.
UploadSaveKeepFirst(filename, content) ==
  /\ Len(reqs) < MaxReqs
  /\ disk' = [disk EXCEPT ![filename] = IF @ = Absent THEN content ELSE @]
  /\ reqs' = Append(reqs, [NewReq("upload", filename, content, 0) EXCEPT
                             !.saved = "ok", !.pc = "load"])
  /\ UNCHANGED index

\* A request enters reqs at its first access to shared state: the save.
UploadSave(filename, content) ==
  /\ Len(reqs) < MaxReqs
  /\ disk' = [disk EXCEPT ![filename] = content]
  /\ reqs' = Append(reqs, [NewReq("upload", filename, content, 0) EXCEPT
                             !.saved = "ok", !.pc = "load"])
  /\ UNCHANGED index

\* open() raised: the file is untouched.
UploadSaveOpenFail(filename, content) ==
  /\ Len(reqs) < MaxReqs
  /\ reqs' = Append(reqs, [NewReq("upload", filename, content, 0) EXCEPT
                             !.saved = "open_failed", !.pc = "done", !.resp = SaveError])
  /\ UNCHANGED <<index, disk>>

\* copyfileobj raised after open(file_path, "wb") truncated the file.
UploadSaveCopyFail(filename, content) ==
  /\ Len(reqs) < MaxReqs
  /\ disk' = [disk EXCEPT ![filename] = Truncated]
  /\ reqs' = Append(reqs, [NewReq("upload", filename, content, 0) EXCEPT
                             !.saved = "copy_failed", !.pc = "done", !.resp = SaveError])
  /\ UNCHANGED index

\* loader.load() and split_documents(documents) both return.
UploadLoad(i, n) ==
  /\ At(i, "upload", "load")
  /\ Supported(reqs[i].filename)
  /\ disk[reqs[i].filename] \in Contents
  /\ reqs' = [reqs EXCEPT ![i].documents = disk[reqs[i].filename],
                          ![i].split = TRUE,
                          ![i].chunks = [j \in 1..n |-> Chunk(reqs[i].filename, disk[reqs[i].filename], j)],
                          ![i].pc = "add"]
  /\ UNCHANGED <<index, disk>>

UploadLoadFail(i) ==
  /\ At(i, "upload", "load")
  /\ Supported(reqs[i].filename)
  /\ reqs' = [reqs EXCEPT ![i].failedAt = "load", ![i].pc = "done", ![i].resp = Unhandled]
  /\ UNCHANGED <<index, disk>>

\* loader.load() returns, split_documents raises (the embedder failed).
UploadSplitFail(i) ==
  /\ At(i, "upload", "load")
  /\ Supported(reqs[i].filename)
  /\ disk[reqs[i].filename] \in Contents
  /\ reqs' = [reqs EXCEPT ![i].documents = disk[reqs[i].filename],
                          ![i].failedAt = "split", ![i].pc = "done", ![i].resp = Unhandled]
  /\ UNCHANGED <<index, disk>>

UploadUnsupported(i) ==
  /\ At(i, "upload", "load")
  /\ ~Supported(reqs[i].filename)
  /\ reqs' = [reqs EXCEPT ![i].pc = "done", ![i].resp = UnsupportedError]
  /\ UNCHANGED <<index, disk>>

UploadAdd(i) ==
  /\ At(i, "upload", "add")
  /\ index' = AddDocuments(index, i, reqs[i].chunks)
  /\ reqs' = [reqs EXCEPT ![i].pc = "respond"]
  /\ UNCHANGED disk

\* Catches the exception of add_documents and answers as if the batch was written.
UploadAddFailSwallowed(i, m) ==
  /\ At(i, "upload", "add")
  /\ m \in 0..Len(reqs[i].chunks)
  /\ index' = AddDocuments(index, i, SubSeq(reqs[i].chunks, 1, m))
  /\ reqs' = [reqs EXCEPT ![i].failedAt = "add", ![i].pc = "done",
                          ![i].resp = Success(Len(reqs[i].chunks))]
  /\ UNCHANGED disk

\* add_documents raised; how much of the batch it had written is the store's affair.
UploadAddFail(i, m) ==
  /\ At(i, "upload", "add")
  /\ m \in 0..Len(reqs[i].chunks)
  /\ index' = AddDocuments(index, i, SubSeq(reqs[i].chunks, 1, m))
  /\ reqs' = [reqs EXCEPT ![i].failedAt = "add", ![i].pc = "done", ![i].resp = Unhandled]
  /\ UNCHANGED disk

UploadRespond(i) ==
  /\ At(i, "upload", "respond")
  /\ reqs' = [reqs EXCEPT ![i].pc = "done", ![i].resp = Success(Len(reqs[i].chunks))]
  /\ UNCHANGED <<index, disk>>

\* ------------------------------------------------------------ chat_endpoint

\* A request enters reqs at its first access to shared state: the search.
ChatSearch(question) ==
  /\ Len(reqs) < MaxReqs
  /\ reqs' = Append(reqs, [NewReq("chat", <<>>, 0, question) EXCEPT
                             !.after = Responded, !.searched = TRUE, !.seen = index,
                             !.queryEmb = QueryEmbedding,
                             !.results = SimilaritySearch(index, question, K),
                             !.pc = "invoke"])
  /\ UNCHANGED <<index, disk>>

ChatSearchFail(question) ==
  /\ Len(reqs) < MaxReqs
  /\ reqs' = Append(reqs, [NewReq("chat", <<>>, 0, question) EXCEPT
                             !.after = Responded, !.failedAt = "search",
                             !.pc = "done", !.resp = Unhandled])
  /\ UNCHANGED <<index, disk>>

\* chain.invoke returns and the handler returns its answer.
ChatInvoke(i) ==
  /\ At(i, "chat", "invoke")
  /\ reqs' = [reqs EXCEPT ![i].llmCalls = @ + 1, ![i].pc = "done",
                          ![i].resp = Answer(reqs[i].results)]
  /\ UNCHANGED <<index, disk>>

\* Invokes the chain once more after a first failure.
ChatInvokeFailRetry(i) ==
  /\ At(i, "chat", "invoke")
  /\ reqs' = [reqs EXCEPT ![i].llmCalls = @ + 1,
                          ![i].failedAt = IF reqs[i].llmCalls = 0 THEN "none" ELSE "llm",
                          ![i].pc = IF reqs[i].llmCalls = 0 THEN "invoke" ELSE "done",
                          ![i].resp = IF reqs[i].llmCalls = 0 THEN NoResp ELSE Unhandled]
  /\ UNCHANGED <<index, disk>>

ChatInvokeFail(i) ==
  /\ At(i, "chat", "invoke")
  /\ reqs' = [reqs EXCEPT ![i].llmCalls = @ + 1, ![i].failedAt = "llm",
                          ![i].pc = "done", ![i].resp = Unhandled]
  /\ UNCHANGED <<index, disk>>

\* ------------------------------------------------------------ specification

Next ==
  \/ \E f \in Filenames, c \in Contents : UploadSave(f, c)
  \/ \E f \in Filenames, c \in Contents : UploadSaveOpenFail(f, c)
  \/ \E f \in Filenames, c \in Contents : UploadSaveCopyFail(f, c)
  \/ \E i \in 1..MaxReqs, n \in 0..MaxChunks : UploadLoad(i, n)
  \/ \E i \in 1..MaxReqs : UploadLoadFail(i)
  \/ \E i \in 1..MaxReqs : UploadSplitFail(i)
  \/ \E i \in 1..MaxReqs : UploadUnsupported(i)
  \/ \E i \in 1..MaxReqs : UploadAdd(i)
  \/ \E i \in 1..MaxReqs, m \in 0..MaxChunks : UploadAddFail(i, m)
  \/ \E i \in 1..MaxReqs : UploadRespond(i)
  \/ \E q \in Questions : ChatSearch(q)
  \/ \E q \in Questions : ChatSearchFail(q)
  \/ \E i \in 1..MaxReqs : ChatInvoke(i)
  \/ \E i \in 1..MaxReqs : ChatInvokeFail(i)

Spec == Init /\ [][Next]_vars

\* ------------------------------------------------------------ properties

Min(a, b) == IF a <= b THEN a ELSE b

Uploads == {i \in Live : reqs[i].kind = "upload"}

Chats == {i \in Live : reqs[i].kind = "chat"}

HasAll(ix, i, chunks) ==
  \A j \in 1..Len(chunks) : \E p \in DOMAIN ix : ix[p] = Entry(i, j, chunks[j])

EntriesOf(ix, i) == {p \in DOMAIN ix : ix[p].id[1] = i}

IsPrefix(s, t) == Len(s) <= Len(t) /\ SubSeq(t, 1, Len(s)) = s

NeitherSuffix(filename) ==
  /\ ~EndsWith(filename, <<".", "p", "d", "f">>)
  /\ ~EndsWith(filename, <<".", "d", "o", "c", "x">>)

\* The requests that act in a step: the one that entered reqs, or one that moved.
Acting(i) == i \in DOMAIN reqs' /\ (i \notin Live \/ reqs'[i] # reqs[i])

\* C1: an upload that answered success with n chunks has all n of them in the
\* index, and a chat that begins after that answer searches an index that holds
\* every one of them.
C1_ReadYourWrites ==
  /\ \A u \in Uploads : reqs[u].resp.form = "success" =>
       /\ reqs[u].resp.chunks = Len(reqs[u].chunks)
       /\ HasAll(index, u, reqs[u].chunks)
  /\ \A c \in Chats : reqs[c].searched =>
       \A u \in reqs[c].after : HasAll(reqs[c].seen, u, reqs[u].chunks)

C1_Witness ==
  \E c \in Chats : reqs[c].searched /\
    \E u \in reqs[c].after : reqs[u].resp.chunks >= 1

\* C2 as stated: every finished upload whose filename ends in neither .pdf nor
\* .docx answered the unsupported-format error and left nothing in the index.
C2_AlwaysUnsupportedError ==
  \A i \in Uploads : (NeitherSuffix(reqs[i].filename) /\ reqs[i].pc = "done") =>
    /\ reqs[i].resp = UnsupportedError
    /\ EntriesOf(index, i) = {}

\* C2 amended: such an upload answers the unsupported-format error when its file
\* was saved and the save error when it was not; either way no loader, chunker
\* or add step ran for it and the index holds no entry of it.
C2_UnsupportedOrSaveError ==
  \A i \in Uploads : NeitherSuffix(reqs[i].filename) =>
    /\ reqs[i].documents = Absent /\ ~reqs[i].split /\ reqs[i].chunks = <<>>
    /\ reqs[i].failedAt = "none"
    /\ EntriesOf(index, i) = {}
    /\ reqs[i].pc \in {"load", "done"}
    /\ reqs[i].pc = "done" =>
         /\ reqs[i].saved = "ok" => reqs[i].resp = UnsupportedError
         /\ reqs[i].saved # "ok" => reqs[i].resp = SaveError

C2_Witness ==
  \E i \in Uploads : /\ reqs[i].filename = Txt /\ reqs[i].pc = "done"
                     /\ reqs[i].saved = "ok" /\ reqs[i].resp = UnsupportedError
                     /\ index # <<>>

\* C3: a search over an index of n entries returns exactly min(n, 3) of its
\* entries; a chat ends in an error only when the search or the language model
\* failed, and otherwise answers with the metadata of those results, which is
\* the empty sequence on an empty index.
C3_TopK ==
  \A c \in Chats :
    /\ reqs[c].searched =>
         /\ Len(reqs[c].results) = Min(Len(reqs[c].seen), 3)
         /\ \A p \in DOMAIN reqs[c].results :
              \E r \in DOMAIN reqs[c].seen : reqs[c].seen[r] = reqs[c].results[p]
         /\ \A p, r \in DOMAIN reqs[c].results :
              p # r => reqs[c].results[p].id # reqs[c].results[r].id
    /\ (reqs[c].pc = "done" /\ reqs[c].failedAt = "none") =>
         /\ reqs[c].resp.form = "answer"
         /\ Len(reqs[c].resp.source_docs) = Min(Len(reqs[c].seen), 3)
         /\ reqs[c].seen = <<>> => reqs[c].resp.source_docs = <<>>
    /\ reqs[c].resp.form = "exception" => reqs[c].failedAt \in {"search", "llm"}

C3_Witness ==
  \E c \in Chats : /\ reqs[c].pc = "done" /\ reqs[c].resp.form = "answer"
                   /\ Len(reqs[c].seen) > 3 /\ Len(reqs[c].resp.source_docs) = 3
                   /\ \E p \in DOMAIN reqs[c].results : reqs[c].results[p].id[1] # 0

\* The empty-index case of C3: a chat that searched an empty index and answered.
C3_EmptyIndexAnswered ==
  \E c \in Chats : /\ reqs[c].pc = "done" /\ reqs[c].resp.form = "answer"
                   /\ reqs[c].seen = <<>> /\ reqs[c].resp.source_docs = <<>>

\* C4 as stated: an upload whose chunker or add_documents call failed answers in
\* the {error: <string>} form.
C4_FailureInErrorForm ==
  \A i \in Uploads : reqs[i].failedAt \in {"split", "add"} =>
    /\ reqs[i].pc = "done"
    /\ reqs[i].resp.form = "error"

\* C4 amended: such an upload stops at the failing call and never answers
\* success; the exception leaves the handler uncaught, so the caller gets the
\* framework's server error and not the {error: <string>} form.
C4_FailureUncaught ==
  \A i \in Uploads : reqs[i].failedAt \in {"split", "add"} =>
    /\ reqs[i].pc = "done"
    /\ reqs[i].resp = Unhandled
    /\ reqs[i].failedAt = "split" => ~reqs[i].split /\ EntriesOf(index, i) = {}

C4_Witness ==
  /\ \E i \in Uploads : reqs[i].failedAt = "split"
  /\ \E i \in Uploads : reqs[i].failedAt = "add"

C5_State ==
  \A c \in Chats :
    /\ reqs[c].llmCalls <= 1
    /\ reqs[c].failedAt = "llm" =>
         /\ reqs[c].pc = "done"
         /\ reqs[c].resp = Unhandled
         /\ reqs[c].llmCalls = 1
         /\ Len(reqs) < MaxReqs =>
              /\ ENABLED (\E f \in Filenames, d \in Contents : UploadSave(f, d))
              /\ ENABLED (\E q \in Questions : ChatSearch(q))

C5_Step ==
  (\E c \in DOMAIN reqs' : reqs'[c].kind = "chat" /\ Acting(c)) => index' = index

\* C5: a chat whose language-model call failed ends with an error answer after
\* exactly one invocation, no step of a chat changes the index, and new upload
\* and chat requests are still accepted afterwards.
C5_GenerationError == [](C5_State) /\ [][C5_Step]_vars

C5_Witness ==
  \E c \in Chats : /\ reqs[c].failedAt = "llm"
                   /\ \E i \in Live : i > c /\ reqs[i].pc = "done"
                                      /\ reqs[i].resp.form \in {"success", "answer"}

C7_Step ==
  /\ IsPrefix(index, index')
  /\ index' # index =>
       \E i \in Uploads : /\ reqs[i].pc = "add" /\ reqs'[i].pc # "add"
                          /\ ~NeitherSuffix(reqs[i].filename)
                          /\ \A p \in DOMAIN index' : p > Len(index) => index'[p].id[1] = i
  /\ (\E c \in DOMAIN reqs' : reqs'[c].kind = "chat" /\ Acting(c)) => index' = index

\* C7: every step leaves the entries already in the index in place and
\* unchanged, only the add step of an upload with a supported suffix appends
\* entries, and a step of a chat leaves the index as it was.
C7_AppendOnly == [][C7_Step]_vars

C7_Witness ==
  /\ \E u \in Uploads : reqs[u].resp.form = "success" /\ reqs[u].resp.chunks >= 1
                        /\ reqs[u].chunks[1].metadata = FilePath(Pdf)
  /\ Len(index) > MaxPersisted
  /\ index[1].id[1] = 0

\* C9: every entry of the index was embedded by the embedder that every search
\* embeds its question with, the one embedding_function of the process.
C9_SameEmbedder ==
  /\ \A p \in DOMAIN index : index[p].embedding.model = "sentence-transformers/all-MiniLM-L6-v2"
  /\ \A c \in Chats : reqs[c].searched =>
       /\ reqs[c].queryEmb = "sentence-transformers/all-MiniLM-L6-v2"
       /\ \A p \in DOMAIN reqs[c].results :
            reqs[c].results[p].embedding.model = reqs[c].queryEmb

C9_Witness ==
  \E c \in Chats : /\ reqs[c].searched
                   /\ \E p \in DOMAIN reqs[c].results : reqs[c].results[p].id[1] # 0

LastOf(S) == CHOOSE i \in S : \A k \in S : k <= i

SavedOk(f) == {i \in Uploads : reqs[i].filename = f /\ reqs[i].saved = "ok"}

Wrote(f) == {i \in Uploads : reqs[i].filename = f /\ reqs[i].saved \in {"ok", "copy_failed"}}

\* C10 as stated: the file under a name holds the content of the most recent
\* upload of that name whose save succeeded.
C10_LastSuccessfulSave ==
  \A f \in Filenames :
    disk[f] = IF SavedOk(f) = {} THEN Absent ELSE reqs[LastOf(SavedOk(f))].content

\* C10 amended: the file under a name is what the most recent upload of that
\* name that opened it left there: its content when its save succeeded, a
\* truncated file when its copy failed; earlier uploads of the same name keep
\* all their index entries.
C10_LastWriteWins ==
  /\ \A f \in Filenames :
       disk[f] = IF Wrote(f) = {} THEN Absent
                 ELSE IF reqs[LastOf(Wrote(f))].saved = "ok"
                      THEN reqs[LastOf(Wrote(f))].content
                      ELSE Truncated
  /\ \A u, v \in Uploads :
       (u < v /\ reqs[u].filename = reqs[v].filename /\ reqs[u].resp.form = "success") =>
         Cardinality(EntriesOf(index, u)) = reqs[u].resp.chunks

C10_Witness ==
  \E u, v \in Uploads : /\ u < v /\ reqs[u].filename = reqs[v].filename
                        /\ reqs[u].content # reqs[v].content
                        /\ reqs[u].resp.form = "success" /\ reqs[u].resp.chunks >= 1
                        /\ reqs[v].resp.form = "success" /\ reqs[v].resp.chunks >= 1
                        /\ disk[reqs[v].filename] = reqs[v].content

====
